---- MODULE Spec2Model ----
(***************************************************************************)
(* Model of the emoAI realtime session client (Electron renderer):         *)
(*   - WebSocketClient  (connection manager + event emitter + dispatcher)  *)
(*   - useSessionStore  (zustand store: sessions, active session, status)  *)
(*   - App / ChatPane   (effects that subscribe to and drive the client)   *)
(*   - TypingBubble / useTypingEffect (the timed reveal of an agent text)  *)
(* The browser's WebSocket objects, its timer table and Date.now() are the *)
(* environment.  JavaScript is single threaded: every handler runs to      *)
(* completion, so every handler is one atomic action.  A handler that      *)
(* changed the store or ChatPane's state is followed by React's commit:    *)
(* ChatPane renders again and the effects of its TypingBubbles run before  *)
(* the next event is handled, so the commit is part of the handler's step. *)
(***************************************************************************)
EXTENDS Integers, Sequences, FiniteSets, TLC

(* ---------------------------- bounds ----------------------------------- *)
MaxTransports == 2   \* number of `new WebSocket(...)` calls explored
MaxSessions   == 2   \* number of createSession calls explored
MaxFrames     == 2   \* number of inbound frames received
MaxSends      == 1   \* number of handleSend calls explored
MaxListeners  == 3   \* subscriptions per event in the emitter harness
MaxMessages   == 2   \* messages in the store of the store harness

(* JavaScript null / undefined; ids are positive, so 0 is free (and falsy) *)
NULL == 0

VARIABLES
  listeners,         \* WebSocketClient.listeners : event -> array of callbacks
  ws,                \* WebSocketClient.ws : index into transports, or NULL
  reconnectTimeout,  \* WebSocketClient.reconnectTimeout : timer id, or NULL
  sessionId,         \* WebSocketClient.sessionId : session id, or NULL
  transports,        \* every WebSocket created so far: readyState, the
                     \* sessionId its handlers closed over, frames sent on it
  timers,            \* browser timer table: ids scheduled, not fired/cleared
  nextTimer,         \* next id setTimeout returns
  clock,             \* the last value Date.now() returned, or NULL
  store,             \* useSessionStore state
  pane,              \* ChatPane: effect closure and local state
  bubbles,           \* the TypingBubble instances ChatPane has mounted
  runs,              \* history: per message, what its reveal has delivered
  received,          \* history: inbound frames in onmessage order
  delivered,         \* history: subscriber callbacks run for inbound frames
  attempted,         \* history: a reconnect timer's callback has run
  sendCalls,         \* history: number of handleSend calls
  emitLog            \* history: callbacks run by the harness's last emit

vars == << listeners, ws, reconnectTimeout, sessionId, transports, timers,
           nextTimer, clock, store, pane, bubbles, runs, received,
           delivered, attempted, sendCalls, emitLog >>

(* ------------------------- input domains -------------------------------- *)
FrameTexts == {"ok"}
InputTexts == {"hi", " "}
FrameTypes == {"final_text", "meta", "eot", "error", "ping", "malformed"}

InFrames ==
  {[type |-> "final_text", text |-> x] : x \in FrameTexts} \cup
  {[type |-> k, text |-> ""] : k \in FrameTypes \ {"final_text"}}

EotFrame   == [type |-> "eot", text |-> ""]
ErrorFrame == [type |-> "error", text |-> ""]

(* String.prototype.trim() followed by the truthiness test of handleSend *)
TrimIsEmpty(text) == text \in {"", " "}

(* ------------------------ callbacks (closures) -------------------------- *)
Callback(fn, sid) == [fn |-> fn, sid |-> sid]

(* App's and ChatPane's subscribers; sid is the currentSessionId the       *)
(* ChatPane effect closed over (it also tells one closure from the next)   *)
handleConnect    == Callback("handleConnect", NULL)
handleDisconnect == Callback("handleDisconnect", NULL)
handleError      == Callback("handleError", NULL)
paneHandleMessage(sid) == Callback("handleMessage", sid)
handleEOT(sid)         == Callback("handleEOT", sid)

(* harness callbacks for the emitter: a probe does nothing; an unsubscriber *)
(* calls off(event, probe(sid)) from inside the delivery                    *)
probe(k)        == Callback("probe", k)
unsubscriber(k) == Callback("unsubscriber", k)
HarnessEvent    == "meta"
HarnessCallbacks == {probe(1), probe(2), unsubscriber(1), unsubscriber(2)}

Events == {"connect", "disconnect", "error", "message", "eot", "meta"}

(* --------------------------- useSessionStore ---------------------------- *)
Message(id, type, text, isTyping) ==
  [id |-> id, type |-> type, text |-> text, isTyping |-> isTyping]

InitialStore ==
  [sessions |-> << >>, currentSessionId |-> NULL,
   connectionStatus |-> "disconnected"]

createSession(st, now) ==
  [st EXCEPT !.sessions = <<[id |-> now, messages |-> << >>]>> \o @,
             !.currentSessionId = now]

selectSession(st, id) == [st EXCEPT !.currentSessionId = id]

(* addMessage() that puts the message at the head of the list *)
addMessagePrepended(st, sid, message) ==
  [st EXCEPT !.sessions =
     [i \in DOMAIN st.sessions |->
        IF st.sessions[i].id = sid
          THEN [st.sessions[i] EXCEPT !.messages = <<message>> \o @]
          ELSE st.sessions[i]]]

addMessage(st, sid, message) ==
  [st EXCEPT !.sessions =
     [i \in DOMAIN st.sessions |->
        IF st.sessions[i].id = sid
          THEN [st.sessions[i] EXCEPT !.messages = Append(@, message)]
          ELSE st.sessions[i]]]

(* { ...msg, ...updates } *)
merge(msg, updates) ==
  [f \in DOMAIN msg |-> IF f \in DOMAIN updates THEN updates[f] ELSE msg[f]]

updateMessage(st, sid, messageId, updates) ==
  [st EXCEPT !.sessions =
     [i \in DOMAIN st.sessions |->
        IF st.sessions[i].id = sid
          THEN [st.sessions[i] EXCEPT !.messages =
                  [j \in DOMAIN st.sessions[i].messages |->
                     IF st.sessions[i].messages[j].id = messageId
                       THEN merge(st.sessions[i].messages[j], updates)
                       ELSE st.sessions[i].messages[j]]]
          ELSE st.sessions[i]]]

setConnectionStatus(st, status) == [st EXCEPT !.connectionStatus = status]

(* ------------------- WebSocketClient: on / off / emit ------------------- *)
InitialListeners == [e \in Events |-> << >>]

on(L, event, callback) == [L EXCEPT ![event] = Append(@, callback)]

off(L, event, callback) ==
  [L EXCEPT ![event] = SelectSeq(@, LAMBDA cb : cb # callback)]

(* One callback invocation.  U = [listeners, store, pane, log, dirty] is    *)
(* what the callbacks of this program can change; dirty: a store action ran *)
(* (zustand notifies on every set) or a useState value of ChatPane changed, *)
(* so React renders ChatPane again.                                         *)
Invoke(cb, arg, U, now) ==
  LET V == U IN
  CASE cb.fn = "handleConnect" ->
         [V EXCEPT !.store = setConnectionStatus(@, "connected"),
                   !.dirty = TRUE]
    [] cb.fn = "handleDisconnect" ->
         [V EXCEPT !.store = setConnectionStatus(@, "disconnected"),
                   !.dirty = TRUE]
    [] cb.fn = "handleError" ->
         [V EXCEPT !.store = setConnectionStatus(@, "error"),
                   !.dirty = TRUE]
    [] cb.fn = "handleMessage" ->
         IF cb.sid # NULL
           THEN [V EXCEPT !.pane.isTyping = TRUE,
                          !.pane.typingText = arg.text,
                          !.store = addMessage(@, cb.sid,
                                      Message(now, "agent", arg.text, TRUE)),
                          !.dirty = TRUE]
           ELSE V
    [] cb.fn = "handleEOT" ->
         [V EXCEPT !.pane.isTyping = FALSE, !.pane.typingText = "",
                   !.dirty = @ \/ V.pane.isTyping \/ V.pane.typingText # ""]
    [] cb.fn = "unsubscriber" ->
         [V EXCEPT !.listeners = off(@, HarnessEvent, probe(cb.sid))]
    [] OTHER -> V

(* Array.prototype.forEach over the array object emit() read.  U.log gets   *)
(* one entry per invocation: the callback, and whether it was still in      *)
(* listeners[event] at the moment it was invoked.                           *)
RECURSIVE forEach(_, _, _, _, _, _)
forEach(cbs, i, event, arg, U, now) ==
  IF i > Len(cbs) THEN U
  ELSE LET entry == [cb |-> cbs[i],
                     subscribed |-> \E j \in DOMAIN U.listeners[event] :
                                       U.listeners[event][j] = cbs[i]]
           V == [U EXCEPT !.log = Append(@, entry)]
       IN forEach(cbs, i + 1, event, arg, Invoke(cbs[i], arg, V, now), now)

emit(U, event, arg, now) ==
  forEach(U.listeners[event], 1, event, arg, U, now)

(* ------------------- browser WebSocket and timer table ------------------ *)
OpenSession(sid) ==
  [type |-> "open_session", session_id |-> sid, message_id |-> NULL,
   text |-> ""]

UserMessage(sid, messageId, text) ==
  [type |-> "user_message", session_id |-> sid, message_id |-> messageId,
   text |-> text]

NewWebSocket(sid) == [readyState |-> "CONNECTING", sid |-> sid, sent |-> << >>]

(* the sessionId parameter of connect() is read by onopen only: the closure *)
(* is dead once the socket has opened or closed                             *)
Opened(trs, t) == [trs EXCEPT ![t].readyState = "OPEN", ![t].sid = NULL]
ClosedSocket(trs, t) == [trs EXCEPT ![t].readyState = "CLOSED", ![t].sid = NULL]

(* WebSocket.close(): starts the closing handshake; the close event comes   *)
(* later as a task of its own.  No effect on a closing or closed socket.    *)
WebSocketClose(trs, t) ==
  [trs EXCEPT ![t].readyState =
     IF @ \in {"CONNECTING", "OPEN"} THEN "CLOSING" ELSE @]

IsOpen(W) == W.ws # NULL /\ W.transports[W.ws].readyState = "OPEN"

(* ----------------- WebSocketClient: connection manager ------------------ *)
(* W = the client's fields together with the browser objects they refer to  *)
Client ==
  [ws |-> ws, reconnectTimeout |-> reconnectTimeout, sessionId |-> sessionId,
   transports |-> transports, timers |-> timers, nextTimer |-> nextTimer]

(* disconnect() that resets the handle but forgets clearTimeout *)
disconnectWithoutClearTimeout(W) ==
  LET W1 == [W EXCEPT !.reconnectTimeout = NULL]
  IN IF W1.ws # NULL
       THEN [W1 EXCEPT !.transports = WebSocketClose(@, W1.ws), !.ws = NULL]
       ELSE W1

disconnect(W) ==
  LET W1 == IF W.reconnectTimeout # NULL
              THEN [W EXCEPT !.timers = @ \ {W.reconnectTimeout},
                             !.reconnectTimeout = NULL]
              ELSE W
  IN IF W1.ws # NULL
       THEN [W1 EXCEPT !.transports = WebSocketClose(@, W1.ws), !.ws = NULL]
       ELSE W1

(* connect() that forgets this.sessionId = sessionId *)
connectWithoutSessionId(W, sid) ==
  LET W2 == IF IsOpen(W) THEN disconnect(W) ELSE W
  IN [W2 EXCEPT !.transports = Append(@, NewWebSocket(sid)),
                !.ws = Len(W2.transports) + 1]

connect(W, sid) ==
  LET W1 == [W EXCEPT !.sessionId = sid]
      W2 == IF IsOpen(W1) THEN disconnect(W1) ELSE W1
  IN [W2 EXCEPT !.transports = Append(@, NewWebSocket(sid)),
                !.ws = Len(W2.transports) + 1]

(* attemptReconnect() without the test of reconnectTimeout *)
attemptReconnectUnguarded(W) ==
  IF W.sessionId # NULL
    THEN [W EXCEPT !.reconnectTimeout = W.nextTimer,
                   !.timers = @ \cup {W.nextTimer},
                   !.nextTimer = @ + 1]
    ELSE W

attemptReconnect(W) ==
  IF W.sessionId # NULL /\ W.reconnectTimeout = NULL
    THEN [W EXCEPT !.reconnectTimeout = W.nextTimer,
                   !.timers = @ \cup {W.nextTimer},
                   !.nextTimer = @ + 1]
    ELSE W

(* send() without the test of readyState *)
sendUnchecked(W, data) ==
  IF W.ws # NULL THEN [W EXCEPT !.transports[W.ws].sent = Append(@, data)]
  ELSE W

send(W, data) ==
  IF IsOpen(W) THEN [W EXCEPT !.transports[W.ws].sent = Append(@, data)]
  ELSE W

sendMessage(W, text, messageId) ==
  IF W.sessionId = NULL THEN W
  ELSE send(W, UserMessage(W.sessionId, messageId, text))

(* ------------------ WebSocketClient: protocol dispatcher ---------------- *)
(* handleMessage() that announces the end of turn before the text *)
handleMessageEotFirst(U, data, now) ==
  CASE data.type = "final_text" ->
         emit(emit(U, "eot", data, now), "message", data, now)
    [] data.type = "meta"       -> emit(U, "meta", data, now)
    [] data.type = "eot"        -> U
    [] data.type = "error"      -> emit(U, "error", data, now)
    [] OTHER                    -> U

handleMessage(U, data, now) ==
  CASE data.type = "final_text" -> emit(U, "message", data, now)
    [] data.type = "meta"       -> emit(U, "meta", data, now)
    [] data.type = "eot"        -> emit(U, "eot", data, now)
    [] data.type = "error"      -> emit(U, "error", data, now)
    [] OTHER                    -> U

(* ws.onmessage: JSON.parse throws on a malformed payload, caught and logged *)
onmessage(U, frame, now) ==
  IF frame.type = "malformed" THEN U ELSE handleMessage(U, frame, now)

(* --------------------- TypingBubble / useTypingEffect ------------------- *)
(* texts a final_text frame carries in the reveal specification *)
RevealTexts == {"", "ok"}

(* Intl.Segmenter (grapheme granularity): the units of a text *)
segment(text) ==
  CASE text = ""   -> << >>
    [] text = "ok" -> <<"o", "k">>
    [] OTHER       -> <<text>>

(* Array.prototype.join('') *)
join(units) ==
  CASE units = << >>       -> ""
    [] Len(units) = 1      -> units[1]
    [] units = <<"o", "k">> -> "ok"

(* sessions.find(s => s.id === currentSessionId): index, or NULL *)
currentSession(st) ==
  LET S == {i \in DOMAIN st.sessions :
              st.sessions[i].id = st.currentSessionId}
  IN IF S = {} THEN NULL ELSE CHOOSE i \in S : \A k \in S : i <= k

(* A message is named by <<n, j>>: the j-th message of the n-th session     *)
(* created (sessions are prepended and messages appended, so the name of a  *)
(* message never changes).                                                  *)
SessionAt(st, n) == st.sessions[Len(st.sessions) - n + 1]
MessageAt(st, k) == SessionAt(st, k[1]).messages[k[2]]

(* the messages ChatPane renders as a TypingBubble: message.isTyping *)
TypingKeys(st) ==
  LET i == currentSession(st)
  IN IF i = NULL THEN {}
     ELSE {<<Len(st.sessions) - i + 1, j>> :
             j \in {m \in DOMAIN st.sessions[i].messages :
                      st.sessions[i].messages[m].isTyping}}

(* a TypingBubble as mounted: useState('') / useState(false) /             *)
(* useRef(false), and useTypingEffect's indexRef and timeoutRef.  The       *)
(* handle in timeoutRef is kept as: one was stored (timeoutRef) and its     *)
(* timer is still in the browser's table (pending).  sid, mid and text are  *)
(* what the props of the last render closed over.                           *)
NewBubble ==
  [sid |-> NULL, mid |-> NULL, text |-> "", displayText |-> "",
   isComplete |-> FALSE, skipRef |-> FALSE, index |-> 0,
   timeoutRef |-> FALSE, pending |-> FALSE]

(* history of one message's reveal: onComplete invocations (counted up to   *)
(* 2) and what made the first one: "natural" (typeNext after the last       *)
(* unit), "skip" (handleSkip), "late skip" (handleSkip when the reveal of   *)
(* some message had already completed naturally) or "effect" (the effect's  *)
(* skip branch)                                                             *)
NewRun == [completes |-> 0, by |-> "none"]

Min(a, b) == IF a < b THEN a ELSE b

(* X = [store, pane, bubbles, runs, dirty] is what a commit works on *)
(* TypingBubble.handleUpdate *)
handleUpdate(X, k, updatedText) ==
  [X EXCEPT !.bubbles[k].displayText = updatedText]

(* handleTypingComplete() that forgets updateMessage *)
handleTypingCompleteLocalOnly(X, sid, messageId) ==
  [X EXCEPT !.pane.isTyping = FALSE,
            !.pane.typingText = "",
            !.dirty = @ \/ X.pane.isTyping \/ X.pane.typingText # ""]

(* ChatPane.handleTypingComplete; sid is the currentSessionId of the render *)
(* that made the onComplete prop                                            *)
handleTypingComplete(X, sid, messageId) ==
  IF sid # NULL
    THEN [X EXCEPT !.store = updateMessage(@, sid, messageId,
                                           [isTyping |-> FALSE]),
                   !.pane.isTyping = FALSE,
                   !.pane.typingText = "",
                   !.dirty = TRUE]
    ELSE [X EXCEPT !.pane.isTyping = FALSE,
                   !.pane.typingText = "",
                   !.dirty = @ \/ X.pane.isTyping \/ X.pane.typingText # ""]

(* the onComplete prop of bubble k is called (history: by whom) *)
onComplete(X, k, caller) ==
  LET late == \E r \in DOMAIN X.runs : X.runs[r].by = "natural"
      how  == IF caller = "skip" /\ late THEN "late skip" ELSE caller
      X1   == [X EXCEPT !.runs[k].completes = Min(@ + 1, 2),
                        !.runs[k].by = IF @ = "none" THEN how ELSE @]
  IN handleTypingComplete(X1, X.bubbles[k].sid, X.bubbles[k].mid)

(* TypingBubble.handleComplete *)
handleComplete(X, k, caller) ==
  onComplete([X EXCEPT !.bubbles[k].isComplete = TRUE], k, caller)

(* TypingBubble.handleSkip *)
handleSkip(X, k) ==
  onComplete([X EXCEPT !.bubbles[k].skipRef = TRUE,
                       !.bubbles[k].displayText = X.bubbles[k].text,
                       !.bubbles[k].isComplete = TRUE], k, "skip")

(* typeNext() that shows a unit but forgets setTimeout(typeNext, delay) *)
typeNextWithoutTimer(X, k) ==
  LET segments == segment(X.bubbles[k].text)
      i        == X.bubbles[k].index
  IN IF i < Len(segments)
       THEN [handleUpdate(X, k, join(SubSeq(segments, 1, i + 1)))
               EXCEPT !.bubbles[k].index = i + 1]
       ELSE handleComplete(X, k, "natural")

(* useTypingEffect: typeNext *)
typeNext(X, k) ==
  LET segments == segment(X.bubbles[k].text)
      i        == X.bubbles[k].index
  IN IF i < Len(segments)
       THEN [handleUpdate(X, k, join(SubSeq(segments, 1, i + 1)))
               EXCEPT !.bubbles[k].index = i + 1,
                      !.bubbles[k].timeoutRef = TRUE,
                      !.bubbles[k].pending = TRUE]
       ELSE handleComplete(X, k, "natural")

(* useTypingEffect: the effect body *)
typingEffect(X, k) ==
  IF X.bubbles[k].skipRef
    THEN handleComplete(handleUpdate(X, k, X.bubbles[k].text), k, "effect")
    ELSE typeNext([X EXCEPT !.bubbles[k].index = 0], k)

(* useTypingEffect: the effect's cleanup (clearTimeout(timeoutRef.current)) *)
typingCleanup(b) == IF b.timeoutRef THEN [b EXCEPT !.pending = FALSE] ELSE b

(* the effects of the bubbles of session n, in the order of the messages *)
RECURSIVE runEffects(_, _, _)
runEffects(X, n, j) ==
  IF j > Len(SessionAt(X.store, n).messages) THEN X
  ELSE runEffects(IF <<n, j>> \in DOMAIN X.bubbles
                    THEN typingEffect(X, <<n, j>>) ELSE X,
                  n, j + 1)

(* React renders ChatPane and commits: a message with isTyping is a         *)
(* TypingBubble (kept if it was one, mounted otherwise), any other bubble   *)
(* is unmounted.  The onComplete prop is a new arrow function in every      *)
(* render, so handleComplete and with it the effect's dependencies change:  *)
(* the effect of every bubble is cleaned up and run again.  An onComplete   *)
(* called from an effect changes the store, which renders ChatPane again.   *)
RECURSIVE render(_)
render(X) ==
  LET st == X.store
      K  == TypingKeys(st)
      B  == [k \in K |->
               [(IF k \in DOMAIN X.bubbles
                   THEN typingCleanup(X.bubbles[k]) ELSE NewBubble)
                EXCEPT !.sid  = st.currentSessionId,
                       !.mid  = MessageAt(st, k).id,
                       !.text = MessageAt(st, k).text]]
      R  == [k \in K \cup DOMAIN X.runs |->
               IF k \in DOMAIN X.runs THEN X.runs[k] ELSE NewRun]
      X1 == [X EXCEPT !.bubbles = B, !.runs = R, !.dirty = FALSE]
      X2 == IF K = {} THEN X1
            ELSE runEffects(X1, (CHOOSE k \in K : TRUE)[1], 1)
  IN IF X2.dirty THEN render(X2) ELSE X2

(* ------------------------------ state ----------------------------------- *)
UI == [listeners |-> listeners, store |-> store, pane |-> pane, log |-> << >>,
       dirty |-> FALSE]

View == [store |-> store, pane |-> pane, bubbles |-> bubbles, runs |-> runs,
         dirty |-> FALSE]

(* the state a handler leaves, after the commit it caused (if any) *)
SetView(X) ==
  \E X1 \in {IF X.dirty THEN render(X) ELSE X} :
    /\ store' = X1.store
    /\ pane' = X1.pane
    /\ bubbles' = X1.bubbles
    /\ runs' = X1.runs

SetClient(W) ==
  /\ ws' = W.ws
  /\ reconnectTimeout' = W.reconnectTimeout
  /\ sessionId' = W.sessionId
  /\ transports' = W.transports
  /\ timers' = W.timers
  /\ nextTimer' = W.nextTimer

SetUI(U) ==
  \E U1 \in {U} :
    /\ listeners' = U1.listeners
    /\ SetView([View EXCEPT !.store = U1.store, !.pane = U1.pane,
                            !.dirty = U1.dirty])

clientVars == << ws, reconnectTimeout, sessionId, transports, timers,
                 nextTimer >>
uiVars     == << listeners, store, pane, bubbles, runs >>

(* State once App has mounted and its effect has subscribed the status      *)
(* handlers; no session exists, so ChatPane is not mounted.                 *)
Init ==
  /\ listeners = on(on(on(InitialListeners, "connect", handleConnect),
                       "disconnect", handleDisconnect),
                    "error", handleError)
  /\ ws = NULL
  /\ reconnectTimeout = NULL
  /\ sessionId = NULL
  /\ transports = << >>
  /\ timers = {}
  /\ nextTimer = 1
  /\ clock = NULL
  /\ store = InitialStore
  /\ pane = [sid |-> NULL, isTyping |-> FALSE, typingText |-> ""]
  /\ bubbles = [k \in {} |-> NewBubble]
  /\ runs = [k \in {} |-> NewRun]
  /\ received = << >>
  /\ delivered = << >>
  /\ attempted = FALSE
  /\ sendCalls = 0
  /\ emitLog = << >>

(* ------------------------------ actions --------------------------------- *)
(* Date.now(): the millisecond of the previous reading, or a later one     *)
(* (only the order and equality of readings matter to this program)        *)
DateNow == IF clock = NULL THEN {1} ELSE {clock, clock + 1}

(* SessionList: the "new session" button *)
CreateSession ==
  /\ Len(store.sessions) < MaxSessions
  /\ \E now \in DateNow :
       /\ SetView([View EXCEPT !.store = createSession(store, now),
                               !.dirty = TRUE])
       /\ clock' = now
  /\ UNCHANGED << clientVars, listeners, received, delivered,
                  attempted, sendCalls, emitLog >>

(* SessionList: click on a session item *)
SelectSession(i) ==
  /\ i \in DOMAIN store.sessions
  /\ SetView([View EXCEPT !.store = selectSession(store, store.sessions[i].id),
                          !.dirty = TRUE])
  /\ UNCHANGED << clientVars, listeners, clock, received,
                  delivered, attempted, sendCalls, emitLog >>

(* ChatPane's first effect: runs on mount and whenever currentSessionId     *)
(* changed; the previous run's cleanup runs first.                          *)
ChatPaneEffectWithin(n) ==
  /\ pane.sid # store.currentSessionId
  /\ Len(transports) < n
  /\ LET cur == store.currentSessionId
         L0  == IF pane.sid # NULL
                  THEN off(off(listeners, "message",
                               paneHandleMessage(pane.sid)),
                           "eot", handleEOT(pane.sid))
                  ELSE listeners
         W1  == IF cur # NULL THEN connect(Client, cur) ELSE Client
     IN /\ SetClient(W1)
        /\ listeners' = on(on(L0, "message", paneHandleMessage(cur)),
                           "eot", handleEOT(cur))
        /\ pane' = [pane EXCEPT !.sid = cur]
  /\ UNCHANGED << store, bubbles, runs, clock, received, delivered,
                  attempted, sendCalls, emitLog >>

ChatPaneEffect == ChatPaneEffectWithin(MaxTransports)

(* wsClient.disconnect() called through the public API *)
Disconnect ==
  /\ SetClient(disconnect(Client))
  /\ UNCHANGED << uiVars, clock, received, delivered, attempted,
                  sendCalls, emitLog >>

(* ws.onopen of transport t *)
TransportOpen(t) ==
  /\ t \in DOMAIN transports
  /\ transports[t].readyState = "CONNECTING"
  /\ LET W1 == [Client EXCEPT !.transports = Opened(@, t)]
     IN SetClient(send(W1, OpenSession(transports[t].sid)))
  /\ SetUI(emit(UI, "connect", NULL, clock))
  /\ UNCHANGED << clock, received, delivered, attempted, sendCalls, emitLog >>

(* ws.onerror of transport t *)
TransportError(t) ==
  /\ t \in DOMAIN transports
  /\ transports[t].readyState # "CLOSED"
  /\ SetUI(emit(UI, "error", NULL, clock))
  /\ UNCHANGED << clientVars, clock, received, delivered, attempted,
                  sendCalls, emitLog >>

(* ws.onclose of transport t: the socket is CLOSED when the event fires *)
TransportClose(t) ==
  /\ t \in DOMAIN transports
  /\ transports[t].readyState # "CLOSED"
  /\ SetClient(attemptReconnect(
                 [Client EXCEPT !.transports = ClosedSocket(@, t)]))
  /\ SetUI(emit(UI, "disconnect", NULL, clock))
  /\ UNCHANGED << clock, received, delivered, attempted, sendCalls,
                  emitLog >>

(* the callback attemptReconnect passed to setTimeout runs *)
ReconnectTimerFireWithin(id, n) ==
  /\ id \in timers
  /\ Len(transports) < n
  /\ LET W1 == [Client EXCEPT !.timers = @ \ {id}]
     IN SetClient(connect(W1, W1.sessionId))
  /\ attempted' = TRUE
  /\ UNCHANGED << uiVars, clock, received, delivered, sendCalls,
                  emitLog >>

ReconnectTimerFire(id) == ReconnectTimerFireWithin(id, MaxTransports)

(* ws.onmessage of transport t with one whole inbound frame; Date.now() is  *)
(* read by ChatPane's subscriber of final_text                              *)
OnMessage(t, frame) ==
  /\ t \in DOMAIN transports
  /\ transports[t].readyState = "OPEN"
  /\ Len(received) < MaxFrames
  /\ \E now \in DateNow :
       /\ frame.type # "final_text" => now = clock
       /\ LET U1 == onmessage(UI, frame, now)
              n  == Len(received) + 1
          IN /\ SetUI(U1)
             /\ delivered' = delivered \o
                  [i \in 1..Len(U1.log) |-> [fn |-> U1.log[i].cb.fn, n |-> n]]
       /\ clock' = now
  /\ received' = Append(received, frame)
  /\ UNCHANGED << clientVars, attempted, sendCalls, emitLog >>

(* ChatPane.handleSend; the textarea and the button are disabled unless the *)
(* status is connected                                                      *)
HandleSend(inputText) ==
  /\ store.connectionStatus = "connected"
  /\ ~TrimIsEmpty(inputText)
  /\ store.currentSessionId # NULL
  /\ sendCalls < MaxSends
  /\ \E now \in DateNow :
       /\ SetView([View EXCEPT
                     !.store = addMessage(store, store.currentSessionId,
                                 Message(now, "user", inputText, FALSE)),
                     !.dirty = TRUE])
       /\ SetClient(sendMessage(Client, inputText, now))
       /\ clock' = now
  /\ sendCalls' = sendCalls + 1
  /\ UNCHANGED << listeners, received, delivered, attempted, emitLog >>

(* emitter harness: a client of the exported wsClient subscribes,          *)
(* unsubscribes and emits on an event of its own                            *)
HarnessOn(cb) ==
  /\ Len(listeners[HarnessEvent]) < MaxListeners
  /\ listeners' = on(listeners, HarnessEvent, cb)
  /\ UNCHANGED << clientVars, store, pane, bubbles, runs, clock, received,
                  delivered, attempted, sendCalls, emitLog >>

HarnessOff(cb) ==
  /\ listeners' = off(listeners, HarnessEvent, cb)
  /\ UNCHANGED << clientVars, store, pane, bubbles, runs, clock, received,
                  delivered, attempted, sendCalls, emitLog >>

HarnessEmit ==
  /\ LET U1 == emit(UI, HarnessEvent, NULL, clock)
     IN /\ SetUI(U1)
        /\ emitLog' = U1.log
  /\ UNCHANGED << clientVars, clock, received, delivered, attempted,
                  sendCalls >>

(* a reveal timer of bubble k fires: typeNext runs; setDisplayText renders  *)
(* the bubble alone, with the props it had, so its effect does not run      *)
RevealTimerFire(k) ==
  /\ k \in DOMAIN bubbles
  /\ bubbles[k].pending
  /\ SetView(typeNext([View EXCEPT !.bubbles[k].pending = FALSE], k))
  /\ UNCHANGED << clientVars, listeners, clock, received, delivered,
                  attempted, sendCalls, emitLog >>

(* click on the skip button of bubble k, rendered while !isComplete *)
Skip(k) ==
  /\ k \in DOMAIN bubbles
  /\ ~bubbles[k].isComplete
  /\ SetView(handleSkip(View, k))
  /\ UNCHANGED << clientVars, listeners, clock, received, delivered,
                  attempted, sendCalls, emitLog >>

(* the user types a character in the textarea (enabled while connected):    *)
(* setInputText renders ChatPane                                            *)
TypeInput ==
  /\ currentSession(store) # NULL
  /\ store.connectionStatus = "connected"
  /\ SetView([View EXCEPT !.dirty = TRUE])
  /\ UNCHANGED << clientVars, listeners, clock, received, delivered,
                  attempted, sendCalls, emitLog >>

(* store harness: a client of useSessionStore calls its actions with any    *)
(* arguments, ids of no session included                                    *)
StoreIds == 1..(MaxSessions + 1)
StoreMessages == {Message(1, "user", "hi", FALSE),
                  Message(2, "agent", "hi", TRUE)}
StoreUpdates == {[isTyping |-> FALSE], [text |-> "ok"]}

RECURSIVE MessageCount(_, _)
MessageCount(st, i) ==
  IF i > Len(st.sessions) THEN 0
  ELSE Len(st.sessions[i].messages) + MessageCount(st, i + 1)

StoreSelect(id) ==
  /\ SetView([View EXCEPT !.store = selectSession(store, id),
                          !.dirty = TRUE])
  /\ UNCHANGED << clientVars, listeners, clock, received, delivered,
                  attempted, sendCalls, emitLog >>

StoreAdd(sid, message) ==
  /\ MessageCount(addMessage(store, sid, message), 1) <= MaxMessages
  /\ SetView([View EXCEPT !.store = addMessage(store, sid, message),
                          !.dirty = TRUE])
  /\ UNCHANGED << clientVars, listeners, clock, received, delivered,
                  attempted, sendCalls, emitLog >>

StoreUpdate(sid, messageId, updates) ==
  /\ SetView([View EXCEPT
                !.store = updateMessage(store, sid, messageId, updates),
                !.dirty = TRUE])
  /\ UNCHANGED << clientVars, listeners, clock, received, delivered,
                  attempted, sendCalls, emitLog >>

(* ---------------------------- specifications ---------------------------- *)
(* the connection manager driven by the UI, the network and the timer;      *)
(* a timer is scheduled by a close, so there are at most as many timers as  *)
(* transports                                                               *)
Next ==
  \/ CreateSession
  \/ \E i \in 1..MaxSessions : SelectSession(i)
  \/ ChatPaneEffect
  \/ Disconnect
  \/ \E t \in 1..MaxTransports : TransportOpen(t)
  \/ \E t \in 1..MaxTransports : TransportError(t)
  \/ \E t \in 1..MaxTransports : TransportClose(t)
  \/ \E id \in 1..MaxTransports : ReconnectTimerFire(id)

Spec == Init /\ [][Next]_vars

(* the user sending messages over the connection manager; sessions are     *)
(* switched by creating them                                                *)
NextSend ==
  \/ CreateSession
  \/ ChatPaneEffect
  \/ Disconnect
  \/ \E t \in 1..MaxTransports : TransportOpen(t)
  \/ \E t \in 1..MaxTransports : TransportError(t)
  \/ \E t \in 1..MaxTransports : TransportClose(t)
  \/ \E id \in 1..MaxTransports : ReconnectTimerFire(id)
  \/ \E inputText \in InputTexts : HandleSend(inputText)

SpecSend == Init /\ [][NextSend]_vars

(* the application receiving frames on its transports, which open, close   *)
(* and are re-created by session switches                                   *)
NextRecv ==
  \/ CreateSession
  \/ ChatPaneEffect
  \/ \E t \in 1..MaxTransports : TransportOpen(t)
  \/ \E t \in 1..MaxTransports : TransportClose(t)
  \/ \E t \in 1..MaxTransports, frame \in InFrames : OnMessage(t, frame)

SpecRecv == Init /\ [][NextRecv]_vars

(* the reveal of agent texts: frames arrive on the transports of the        *)
(* sessions the user creates, reveal timers fire, the user skips and types  *)
RevealFrames ==
  {[type |-> "final_text", text |-> x] : x \in RevealTexts} \cup {EotFrame}

RevealKeys == (1..MaxSessions) \X (1..MaxFrames)

NextReveal ==
  \/ CreateSession
  \/ ChatPaneEffect
  \/ \E t \in 1..MaxTransports : TransportOpen(t)
  \/ \E t \in 1..MaxTransports, frame \in RevealFrames : OnMessage(t, frame)
  \/ \E k \in RevealKeys : RevealTimerFire(k)
  \/ \E k \in RevealKeys : Skip(k)
  \/ TypeInput

SpecReveal == Init /\ [][NextReveal]_vars

(* a reveal while the connection is lost and recovered: an agent text       *)
(* arrives, its reveal timers fire, transports close and are reconnected    *)
NextRevealConn ==
  \/ CreateSession
  \/ ChatPaneEffect
  \/ \E t \in 1..MaxTransports : TransportOpen(t)
  \/ \E t \in 1..MaxTransports : TransportClose(t)
  \/ \E id \in 1..MaxTransports : ReconnectTimerFire(id)
  \/ \E t \in 1..MaxTransports :
       OnMessage(t, [type |-> "final_text", text |-> "ok"])
  \/ \E k \in RevealKeys : RevealTimerFire(k)

SpecRevealConn == Init /\ [][NextRevealConn]_vars

(* one turn of a conversation: sessions are created and connected, the     *)
(* user sends one message from the session shown (React has run the        *)
(* effects of a render before it handles the next click), the backend      *)
(* answers on the transport that carried the message with one final_text   *)
(* and then one eot, and the reveal timers fire; the user does nothing     *)
(* after the send                                                           *)
TurnCreateSession == sendCalls = 0 /\ CreateSession

TurnSend ==
  /\ sendCalls = 0
  /\ pane.sid = store.currentSessionId
  /\ \E inputText \in InputTexts : HandleSend(inputText)

BackendReply(t, text) ==
  /\ t \in DOMAIN transports
  /\ \E j \in DOMAIN transports[t].sent :
       transports[t].sent[j].type = "user_message"
  /\ Len(received) < 2
  /\ OnMessage(t, IF received = << >>
                    THEN [type |-> "final_text", text |-> text]
                    ELSE EotFrame)

TurnKeys == (1..MaxSessions) \X (1..2)

RevealTimerFires == \E k \in TurnKeys : RevealTimerFire(k)

NextTurn ==
  \/ TurnCreateSession
  \/ ChatPaneEffect
  \/ \E t \in 1..MaxTransports : TransportOpen(t)
  \/ TurnSend
  \/ \E t \in 1..MaxTransports, text \in RevealTexts : BackendReply(t, text)
  \/ RevealTimerFires

(* the browser fires every timer that stays in its table *)
SpecTurn == Init /\ [][NextTurn]_vars /\ WF_vars(RevealTimerFires)

(* switching sessions on a healthy network: transports open, and the only *)
(* close events are those of the sockets the manager closed itself with    *)
(* ws.close().  A switch and the reconnect after it take three transports, *)
(* one more than the other specifications explore.                         *)
SwitchTransports == MaxTransports + 1

DeliberateCloseCompletes(t) ==
  /\ t \in DOMAIN transports
  /\ transports[t].readyState = "CLOSING"
  /\ TransportClose(t)

SwitchTimerFire(id) == ReconnectTimerFireWithin(id, SwitchTransports)

NextSwitch ==
  \/ CreateSession
  \/ \E i \in 1..MaxSessions : SelectSession(i)
  \/ ChatPaneEffectWithin(SwitchTransports)
  \/ \E t \in 1..SwitchTransports : TransportOpen(t)
  \/ \E t \in 1..SwitchTransports : DeliberateCloseCompletes(t)
  \/ \E id \in 1..SwitchTransports : SwitchTimerFire(id)

SpecSwitch == Init /\ [][NextSwitch]_vars

(* the store under its harness *)
NextStore ==
  \/ CreateSession
  \/ \E id \in StoreIds : StoreSelect(id)
  \/ \E sid \in StoreIds, message \in StoreMessages : StoreAdd(sid, message)
  \/ \E sid \in StoreIds, messageId \in 1..2, updates \in StoreUpdates :
       StoreUpdate(sid, messageId, updates)

SpecStore == Init /\ [][NextStore]_vars

(* the emitter under its harness *)
NextEmit ==
  \/ \E cb \in HarnessCallbacks : HarnessOn(cb)
  \/ \E cb \in HarnessCallbacks : HarnessOff(cb)
  \/ HarnessEmit

SpecEmit == Init /\ [][NextEmit]_vars

(* ------------------------------ properties ------------------------------ *)
TransportCloses == \E t \in 1..MaxTransports : TransportClose(t)

Live == {t \in DOMAIN transports :
           transports[t].readyState \in {"CONNECTING", "OPEN"}}

Closed == {t \in DOMAIN transports : transports[t].readyState = "CLOSED"}

(* the user_message frames transmitted so far, as (transport, position) *)
UserFrames(trs) ==
  UNION {{<<t, k>> : k \in {j \in DOMAIN trs[t].sent :
                              trs[t].sent[j].type = "user_message"}} :
         t \in DOMAIN trs}

UserMessages(st) ==
  UNION {{<<i, j>> : j \in {k \in DOMAIN st.sessions[i].messages :
                              st.sessions[i].messages[k].type = "user"}} :
         i \in DOMAIN st.sessions}

C2_EveryCloseSchedulesReconnect ==
  [][ (TransportCloses /\ sessionId # NULL /\ timers = {})
        => timers' # {} ]_vars

(* C3: disconnect() takes the manager to the rest state: state             *)
(* disconnected, no session id associated, no timer pending and no          *)
(* transport held; from there no transport event schedules a reconnect.     *)
C3_DisconnectReachesRest ==
  [][ /\ Disconnect => /\ store'.connectionStatus = "disconnected"
                       /\ sessionId' = NULL
                       /\ timers' = {}
                       /\ ws' = NULL
      /\ (TransportCloses /\ ws = NULL /\ timers = {}) => timers' = {} ]_vars

(* C4: an explicit connect() leaves no reconnect timer pending.             *)
C4_ConnectCancelsTimer ==
  [][ ChatPaneEffect => timers' = {} ]_vars

(* C5: at most one reconnect timer is outstanding in every reachable state. *)
C5_AtMostOneTimer == Cardinality(timers) <= 1

(* two transports have closed, the second close found the first one's timer *)
(* outstanding and scheduled nothing                                        *)
C5_Witness ==
  /\ Cardinality(Closed) >= 2
  /\ Cardinality(timers) = 1
  /\ nextTimer = 2

(* C6: at most one transport created by the manager is connecting or open.  *)
C6_AtMostOneLiveTransport == Cardinality(Live) <= 1

(* C7: while the manager's transport is connecting (between connect() and   *)
(* the transport-open event) the connection state is `connecting`.          *)
C7_ConnectingState ==
  (ws # NULL /\ transports[ws].readyState = "CONNECTING")
    => store.connectionStatus = "connecting"

(* C8: handleSend keeps the user message in the session and transmits its   *)
(* frame on the manager's transport iff that transport is open at the call; *)
(* no other step transmits a user_message frame (nothing is queued or       *)
(* flushed later) and no step removes a user message.                       *)
C8_SendIffOpen ==
  [][ /\ \A inputText \in InputTexts :
           HandleSend(inputText) =>
             /\ transports' =
                  IF IsOpen(Client)
                    THEN [transports EXCEPT ![ws].sent =
                            Append(@, UserMessage(sessionId, clock',
                                                  inputText))]
                    ELSE transports
             /\ Cardinality(UserMessages(store')) >
                  Cardinality(UserMessages(store))
      /\ (\A inputText \in InputTexts : ~HandleSend(inputText))
           => UserFrames(transports') = UserFrames(transports)
      /\ Cardinality(UserMessages(store')) >=
           Cardinality(UserMessages(store)) ]_vars

(* a message was sent while the transport was not open: it is in the        *)
(* session, and after the new transport opened (open_session went out on    *)
(* it) no user_message frame has been transmitted                           *)
C8_Witness ==
  /\ sendCalls >= 1
  /\ UserMessages(store) # {}
  /\ UserFrames(transports) = {}
  /\ IsOpen(Client)
  /\ transports[ws].sent # << >>

(* C9: a callback invoked by emit is still subscribed at the moment it is   *)
(* invoked (one removed by an earlier callback of the same emit is not      *)
(* invoked for that delivery).                                              *)
C9_RemovedHandlerNotInvoked ==
  \A i \in DOMAIN emitLog : emitLog[i].subscribed

(* C10: the subscriber callbacks run for inbound frames are exactly one     *)
(* callback per routed frame (final_text, eot, error), in the order the     *)
(* frames were received: nothing delayed, duplicated or reordered.          *)
C10_DeliveredInReceiveOrder ==
  LET Indexed == [i \in DOMAIN received |->
                    [n |-> i, type |-> received[i].type]]
      Routed  == SelectSeq(Indexed,
                   LAMBDA r : r.type \in {"final_text", "eot", "error"})
      Subscriber(type) == CASE type = "final_text" -> "handleMessage"
                            [] type = "eot"        -> "handleEOT"
                            [] type = "error"      -> "handleError"
  IN delivered = [k \in DOMAIN Routed |->
                    [fn |-> Subscriber(Routed[k].type), n |-> Routed[k].n]]

(* two frames were received and each reached its subscriber *)
C10_Witness ==
  /\ Len(received) >= 2
  /\ Len(delivered) >= 2
  /\ delivered[1].n = 1
  /\ delivered[2].n = 2

(* the frame carrying an error of the backend reaches an open transport *)
OnErrorFrame == \E t \in 1..MaxTransports : OnMessage(t, ErrorFrame)

(* C11: an `error` frame received while the state is connected leaves the   *)
(* transport open, schedules no reconnect and leaves the state connected.   *)
C11_ErrorFrameLeavesConnected ==
  [][ (OnErrorFrame /\ store.connectionStatus = "connected")
        => /\ transports' = transports
           /\ timers' = timers
           /\ store'.connectionStatus = "connected" ]_vars

(* the units a bubble displays *)
Revealed(b) == Len(segment(b.displayText))

(* C12: while a message is revealed, every step leaves the text its bubble  *)
(* displays as it was or one unit longer (the onUpdate values form a chain  *)
(* growing by one unit), whatever else happens in the client; the reveal    *)
(* completes naturally only with the full text displayed, and onComplete    *)
(* is invoked at most once.                                                 *)
C12_UpdatesGrowByOneUnit ==
  [][ \A k \in DOMAIN bubbles :
        /\ k \in DOMAIN bubbles'
             => Revealed(bubbles'[k]) \in
                  {Revealed(bubbles[k]), Revealed(bubbles[k]) + 1}
        /\ (runs[k].by = "none" /\ runs'[k].by = "natural")
             => bubbles[k].displayText = bubbles[k].text
        /\ runs'[k].completes <= 1 ]_vars

(* C13: a reveal that has been terminated (its bubble is no longer mounted, *)
(* so no timer of it is pending) had onComplete invoked exactly once, and   *)
(* no reveal has it invoked twice.                                          *)
C13_TerminatedRevealCompletedOnce ==
  \A k \in DOMAIN runs :
    /\ runs[k].completes <= 1
    /\ k \notin DOMAIN bubbles => runs[k].completes = 1

OnEotFrame == \E t \in 1..MaxTransports : OnMessage(t, EotFrame)

(* the reveals in flight for the most recent agent message of the session   *)
(* ChatPane shows                                                           *)
LastAgentInFlight ==
  {k \in DOMAIN bubbles :
     /\ bubbles[k].pending
     /\ MessageAt(store, k).type = "agent"
     /\ \A j \in DOMAIN SessionAt(store, k[1]).messages :
          j > k[2] => SessionAt(store, k[1]).messages[j].type # "agent"}

(* C15: an eot frame received while a reveal is in flight for the most      *)
(* recent agent message leaves that message not revealing and no reveal     *)
(* timer pending for it.                                                    *)
C15_EotCompletesReveal ==
  [][ OnEotFrame =>
        \A k \in LastAgentInFlight :
          /\ ~MessageAt(store', k).isTyping
          /\ k \in DOMAIN bubbles' => ~bubbles'[k].pending ]_vars

(* every message of the store, by name *)
MessageKeys ==
  UNION {{<<n, j>> : j \in DOMAIN SessionAt(store, n).messages} :
         n \in 1..Len(store.sessions)}

(* C16: a message is revealing (isTyping) only if it is an agent message    *)
(* and a reveal of it is in flight: its bubble is mounted and not complete, *)
(* so in particular no message of a session ChatPane does not show is       *)
(* revealing.                                                               *)
C16_RevealingOnlyInFlight ==
  \A k \in MessageKeys :
    MessageAt(store, k).isTyping
      => /\ MessageAt(store, k).type = "agent"
         /\ k \in DOMAIN bubbles
         /\ ~bubbles[k].isComplete

(* C17: a transport close leaves every reveal in flight where it was: the   *)
(* bubble stays mounted, with the units already revealed, the position of   *)
(* the next unit and its pending timer unchanged.                           *)
C17_CloseLeavesRevealAlone ==
  [][ TransportCloses =>
        \A k \in DOMAIN bubbles :
          bubbles[k].pending
            => /\ k \in DOMAIN bubbles'
               /\ bubbles'[k].index = bubbles[k].index
               /\ bubbles'[k].displayText = bubbles[k].displayText
               /\ bubbles'[k].pending ]_vars

(* C18: no message with the empty text is stored as revealing, in any       *)
(* state.                                                                   *)
C18_EmptyTextNeverRevealing ==
  \A k \in MessageKeys :
    MessageAt(store, k).text = "" => ~MessageAt(store, k).isTyping

(* the identity of the messages of a list, in the order of the list *)
Identities(messages) ==
  [j \in DOMAIN messages |-> <<messages[j].id, messages[j].type>>]

HasSession(st, sid) == \E i \in DOMAIN st.sessions : st.sessions[i].id = sid

(* C19: in every step of the store each session keeps its id and its        *)
(* messages in their order (none dropped, reordered or moved); the lists    *)
(* that grow in a step are those of the sessions with one id, and they grow *)
(* by one and the same message at their end; addMessage and updateMessage   *)
(* with the id of no session return the store as it was.                    *)
C19_MessagesInAppendOrder ==
  /\ [](\A sid \in StoreIds :
          ~HasSession(store, sid)
            => /\ \A message \in StoreMessages :
                    addMessage(store, sid, message) = store
               /\ \A messageId \in 1..2, updates \in StoreUpdates :
                    updateMessage(store, sid, messageId, updates) = store)
  /\ [][ \/ store' = store
         \/ LET d == Len(store'.sessions) - Len(store.sessions)
                old(i) == store.sessions[i].messages
                new(i) == store'.sessions[i + d].messages
                grown  == {i \in DOMAIN store.sessions :
                             Len(new(i)) > Len(old(i))}
            IN /\ d \in {0, 1}
               /\ \A i \in DOMAIN store.sessions :
                    /\ store'.sessions[i + d].id = store.sessions[i].id
                    /\ Len(new(i)) >= Len(old(i))
                    /\ SubSeq(Identities(new(i)), 1, Len(old(i)))
                         = Identities(old(i))
               /\ grown # {}
                    => \E sid \in StoreIds, message \in StoreMessages :
                         \A i \in DOMAIN store.sessions :
                           /\ i \in grown <=> store.sessions[i].id = sid
                           /\ i \in grown
                                => Identities(new(i))
                                     = Identities(Append(old(i), message))
       ]_vars

(* a session holds the agent message and then the user message, in the      *)
(* order they were added, the agent message patched by updateMessage, and   *)
(* another session holds nothing                                            *)
C19_Witness ==
  \E i, r \in DOMAIN store.sessions :
    /\ Identities(store.sessions[i].messages) = <<<<2, "agent">>, <<1, "user">>>>
    /\ ~store.sessions[i].messages[1].isTyping
    /\ store.sessions[r].messages = << >>
    /\ store.sessions[r].id # store.sessions[i].id

(* C20: the sessions of the collection have pairwise distinct ids.          *)
C20_SessionIdsUnique ==
  \A i, r \in DOMAIN store.sessions :
    store.sessions[i].id = store.sessions[r].id => i = r

(* the user's message went out and the backend's final_text and eot came *)
TurnReplied == sendCalls = 1 /\ Len(received) = 2

(* the session shown holds the user's message and then the agent's, fully  *)
(* revealed and with the text of the final_text frame                      *)
TurnShown ==
  LET i == currentSession(store)
  IN /\ i # NULL
     /\ Len(store.sessions[i].messages) = 2
     /\ store.sessions[i].messages[1].type = "user"
     /\ store.sessions[i].messages[2].type = "agent"
     /\ ~store.sessions[i].messages[2].isTyping
     /\ store.sessions[i].messages[2].text = received[1].text

EffectHasRun == pane.sid = store.currentSessionId

(* C22: whatever sessions were created and selected and whatever reconnect *)
(* timers fired, once ChatPane's effect has run for the active session the *)
(* manager's sessionId is the store's currentSessionId, and a reconnect     *)
(* timer that fires then opens its transport for the active session.        *)
C22_ConnectionFollowsActiveSession ==
  /\ [](EffectHasRun => sessionId = store.currentSessionId)
  /\ [][ \A id \in 1..MaxTransports :
           (ReconnectTimerFire(id) /\ EffectHasRun)
             => /\ sessionId' = store.currentSessionId
                /\ transports'[Len(transports')].sid = store.currentSessionId
       ]_vars

(* two sessions exist, the effect has run for the active one and the last   *)
(* transport, still connecting, is the one a reconnect timer opened for it  *)
C22_Witness ==
  /\ Len(store.sessions) = 2
  /\ store.sessions[1].id # store.sessions[2].id
  /\ EffectHasRun
  /\ attempted
  /\ Len(transports) = 2
  /\ transports[1].readyState = "CLOSED"
  /\ transports[2].readyState = "CONNECTING"
  /\ transports[2].sid = store.currentSessionId
  /\ sessionId = store.currentSessionId

(* C23: no two messages of one session share an id. *)
C23_MessageIdsUnique ==
  \A i \in DOMAIN store.sessions :
    \A j, k \in DOMAIN store.sessions[i].messages :
      store.sessions[i].messages[j].id = store.sessions[i].messages[k].id
        => j = k

(* C24: after a session switch on a healthy network the manager settles   *)
(* with its one open transport and no reconnect timer: the close event of  *)
(* a transport the manager closed itself leaves no reconnect timer         *)
(* pending, and a reconnect timer that fires closes no open transport.     *)
C24_SwitchStabilises ==
  [][ /\ \A t \in 1..SwitchTransports :
           DeliberateCloseCompletes(t) => timers' = {}
      /\ \A id \in 1..SwitchTransports :
           SwitchTimerFire(id)
             => \A t \in DOMAIN transports :
                  transports[t].readyState = "OPEN"
                    => transports'[t].readyState = "OPEN"
    ]_vars

(* C25: whenever the store's connection status is connected, the transport *)
(* the manager holds is open. *)
C25_ConnectedMeansOpen ==
  store.connectionStatus = "connected" => IsOpen(Client)

====
